---- MODULE Spec2Model ----
(***************************************************************************)
(* SearchAgent (src/unnamed/part_000): one search() call, from the rephrase *)
(* language-model call to the answer, with every await as a step.           *)
(*                                                                         *)
(* Similarity values and thresholds are fixed-point numbers in hundredths   *)
(* (0.3 is 30); a similarity is a record [nan, val] so that the NaN of a    *)
(* zero vector under cosine is a value of its own.                          *)
(***************************************************************************)
EXTENDS Integers, Sequences, FiniteSets, TLC

VARIABLES
  given,               \* the Partial<SearchConfig> the constructor was called with
  web,                 \* per URL: the body a GET of it is answered with, as lines of HTML
  peer,                \* a second search() call on the same agent: its own locals
  config,              \* this.config after the constructor
  pc,                  \* where search() is: the await it is suspended at, or its end
  searchQuery,         \* the rephrased query handed to the retrieval lambda
  requestQuery,        \* the q parameter of the search request
  urls,                \* results.map(r => r.url)
  getCalls,            \* the urls axios.get was called with by the tasks, in call order
  task,                \* per URL: the state of its async task in getDocumentsFromUrls
  chunks,              \* per URL: what splitter.splitText is producing
  docs,                \* the docs array of getDocumentsFromUrls
  embedQ,              \* the embedQuery promise
  embedD,              \* the embedDocuments promise
  queryEmbedding,
  docEmbeddings,
  similarities,        \* rerankDocs: [index, similarity] per document
  rankedDocs,          \* what rerankDocs returned (docs of search())
  context,             \* the context handed to the answer prompt
  rephrase,            \* the promise of the rephrase language-model call
  synthesis,           \* the promise of the synthesis language-model call
  llmCalls,            \* number of language-model invocations so far
  question,            \* the question handed to the answer prompt
  embedQueryCalls,
  embeddedQuery,       \* the text embedQuery was called with
  embedDocumentsCalls,
  answer,              \* what search() returned
  error,               \* why search() rejected
  logged               \* what console.error was called with

vars == <<given, web, peer, config, pc, searchQuery, requestQuery, urls, getCalls, task, chunks, docs, embedQ, embedD,
          queryEmbedding, docEmbeddings, similarities, rankedDocs, context,
          rephrase, synthesis, llmCalls, question, embedQueryCalls, embeddedQuery, embedDocumentsCalls,
          answer, error, logged>>

\* What each part of search() writes.
fetchVars == <<urls, getCalls, task, chunks, docs>>
embedCallVars == <<embedQ, embedD, embedQueryCalls, embeddedQuery, embedDocumentsCalls>>
embeddingVars == <<queryEmbedding, docEmbeddings>>
answerVars == <<rankedDocs, context, synthesis, llmCalls, question>>
\* The locals of the search() call the variables above follow.
callVars == <<pc, searchQuery, requestQuery, fetchVars, embedCallVars, embeddingVars,
              similarities, answerVars, rephrase, answer, error>>

\* Bounds of the model.
MaxUrls == 2           \* search results per query
MaxDocs == 2           \* chunks over all the pages of one query
MaxRerankDocs == 3     \* documents of a rerankDocs call checked on its own
MaxFetchUrls == 3      \* urls of a getDocumentsFromUrls call checked on its own
MaxFetchChunks == 2    \* chunks of one page in such a call
MaxTwoDocs == 2        \* chunks of the page of each of two interleaved calls

\* ------------------------------------------------------------------- world
\* What search() is called with and what the services it calls answer.

\* The query argument of search(), and the text the rephrase call answers with.
Query == "query"
Rephrased == "rephrased"

\* The url of the i-th search result.
Url(i) == "https://x.test/" \o ToString(i)

\* The j-th chunk splitText returns for the text of the page at url.
Chunk(url, j) == url \o "#" \o ToString(j)

\* A page body is a sequence of lines, and a line is the sequence of the
\* contents of the <title ...>...</title> elements written on it. Bodies that
\* differ in how the regular expression of the title match treats them:
Pages ==
  { <<>>,                     \* no title element
    << <<"A">> >>,            \* one title element
    << <<"">> >>,             \* one title element with empty content
    << <<"A", "B">> >>,       \* two title elements on one line
    << <<>>, <<"A">>, <<"B">> >> }  \* two title elements on two later lines

\* The pages the search results point to: the first has a title, the others none.
StaticWeb ==
  [u \in {Url(i) : i \in 1..MaxUrls} |-> IF u = Url(1) THEN << <<"A">> >> ELSE <<>>]

\* response.data.match(/<title.*>(.*?)<\/title>/): null (<<>>) with no title
\* element on any line; otherwise the match starts at the first <title of the
\* first line that has an element, the greedy .* runs to the last opening tag
\* of that line, and group 1 is the content of that last element.
MatchTitle(html) ==
  LET lines == {l \in 1..Len(html) : html[l] # <<>>}
  IN IF lines = {}
       THEN <<>>
       ELSE LET l == CHOOSE m \in lines : \A k \in lines : m <= k
            IN <<html[l][Len(html[l])]>>

\* response.data.match(...)?.[1] || url
Title(html, url) ==
  IF MatchTitle(html) = <<>> \/ MatchTitle(html)[1] = ""
    THEN url
    ELSE MatchTitle(html)[1]

\* A second search() call that is not running.
NoPeer == [pc |-> "none"]

\* ------------------------------------------------------------------ config

defaultConfig ==
  [similarityMeasure |-> "cosine", rerankThreshold |-> 30, maxResults |-> 15]

\* The Partial<SearchConfig> objects a caller passes: each field is absent
\* (<<>>) or given (<<value>>). The measure is given as the one that is not the
\* default, so that both measures are configured.
PartialConfigs ==
  [similarityMeasure : {<<>>, <<"dot">>},
   rerankThreshold   : {<<>>, <<0>>, <<100>>},
   maxResults        : {<<>>, <<1>>, <<2>>}]

\* Mutant of Merge: the spread order is swapped, so the defaults win.
MergeDefaultsLast(partial) ==
  [f \in DOMAIN defaultConfig |-> defaultConfig[f]]

\* { ...defaultConfig, ...config }
Merge(partial) ==
  [f \in DOMAIN defaultConfig |->
     IF partial[f] = <<>> THEN defaultConfig[f] ELSE partial[f][1]]

\* ------------------------------------------------------------- similarity

NaN == [nan |-> TRUE, val |-> 0]
Num(v) == [nan |-> FALSE, val |-> v]

\* x > t of JavaScript numbers: false when x is NaN.
Greater(x, t) == ~x.nan /\ x.val > t

RECURSIVE DotUpTo(_, _, _)
DotUpTo(x, y, n) == IF n = 0 THEN 0 ELSE DotUpTo(x, y, n - 1) + x[n] * y[n]
Dot(x, y) == DotUpTo(x, y, Len(x))

ISqrt(n) == CHOOSE k \in 0..n : k * k <= n /\ (k + 1) * (k + 1) > n
L2Norm(x) == ISqrt(Dot(x, x))

\* compute-cosine-similarity and compute-dot both throw on arrays of
\* different lengths.
Throws(x, y) == Len(x) # Len(y)

cosineSimilarity(x, y) ==
  LET a == Dot(x, y)
      b == L2Norm(x)
      c == L2Norm(y)
  IN IF b * c = 0 THEN NaN ELSE Num((100 * a) \div (b * c))

computeDot(x, y) == Num(100 * Dot(x, y))

computeSimilarity(x, y) ==
  IF config.similarityMeasure = "cosine"
    THEN cosineSimilarity(x, y)
    ELSE computeDot(x, y)

\* The vectors an embedding model answers with.
Vectors == {<<1, 0>>, <<3, 4>>, <<7, 24>>, <<0, 0>>, <<1>>}

\* ---------------------------------------------------------------- rerank

\* this.config.rerankThreshold || 0.3
Threshold == IF config.rerankThreshold = 0 THEN 30 ELSE config.rerankThreshold

\* Mutant of Survives: the filter keeps a score equal to the threshold.
SurvivesAtLeast(sim) == ~sim.similarity.nan /\ sim.similarity.val >= Threshold

Survives(sim) == Greater(sim.similarity, Threshold)

Filter(sims) == SelectSeq(sims, Survives)

\* Mutant of Before: an unstable sort that puts an element in front of its equals.
BeforeStrict(a, b) == a.similarity.val > b.similarity.val

\* sort((a, b) => b.similarity - a.similarity): stable, so an element goes
\* behind every element that does not compare after it.
Before(a, b) == a.similarity.val >= b.similarity.val

RECURSIVE Insert(_, _)
Insert(s, sorted) ==
  IF sorted = <<>> THEN <<s>>
  ELSE IF Before(Head(sorted), s)
    THEN <<Head(sorted)>> \o Insert(s, Tail(sorted))
    ELSE <<s>> \o sorted

RECURSIVE Sort(_)
Sort(sims) ==
  IF sims = <<>> THEN <<>>
  ELSE Insert(sims[Len(sims)], Sort(SubSeq(sims, 1, Len(sims) - 1)))

\* slice(0, this.config.maxResults)
Slice(sims) ==
  SubSeq(sims, 1, IF Len(sims) < config.maxResults THEN Len(sims) ELSE config.maxResults)

\* filter . sort . slice, still as [index, similarity] records
Ranked(sims) == Slice(Sort(Filter(sims)))

\* Mutant of Pick: the scored records are returned, document and similarity.
PickWithScore(sims, ds) ==
  [k \in 1..Len(sims) |->
     [pageContent |-> ds[sims[k].index].pageContent,
      metadata |-> ds[sims[k].index].metadata,
      similarity |-> sims[k].similarity]]

\* .map(sim => docs[sim.index])
Pick(sims, ds) == [k \in 1..Len(sims) |-> ds[sims[k].index]]

Similarities(q, ds) ==
  [i \in 1..Len(ds) |-> [index |-> i, similarity |-> computeSimilarity(q, ds[i])]]

\* -------------------------------------------------------------- context

\* "[i] title\ncontent" blocks in order; the empty sequence is the empty string.
\* A string is modelled as the sequence of the pieces it was put together from.
\* `[${i + 1}] ${doc.metadata.title}\n${doc.pageContent}`
Block(i, doc) ==
  <<"[", ToString(i), "] ", doc.metadata.title, "\n", doc.pageContent>>

\* blocks.join('\n\n') of the first n blocks
RECURSIVE JoinUpTo(_, _)
JoinUpTo(blocks, n) ==
  IF n = 0 THEN <<>>
  ELSE IF n = 1 THEN blocks[1]
  ELSE JoinUpTo(blocks, n - 1) \o <<"\n\n">> \o blocks[n]

\* Mutant of Context: the blocks are numbered with the array index (from 0).
ContextZeroBased(ds) ==
  JoinUpTo([i \in 1..Len(ds) |-> Block(i - 1, ds[i])], Len(ds))

\* docs.map((doc, i) => block).join('\n\n'); the empty sequence is the empty string.
Context(ds) ==
  JoinUpTo([i \in 1..Len(ds) |-> Block(i, ds[i])], Len(ds))

\* ------------------------------------------------------------------ Init

\* new SearchAgent(given), then search(query, llm, embeddings) up to its first
\* await: searchChain.invoke has called the model with the rephrase prompt.
Init ==
  /\ given \in PartialConfigs
  /\ config = Merge(given)
  /\ web = StaticWeb
  /\ peer = NoPeer
  /\ pc = "rephrase"
  /\ searchQuery = ""
  /\ requestQuery = ""
  /\ urls = <<>>
  /\ getCalls = <<>>
  /\ task = <<>>
  /\ chunks = <<>>
  /\ docs = <<>>
  /\ embedQ = "idle"
  /\ embedD = "idle"
  /\ queryEmbedding = <<>>
  /\ docEmbeddings = <<>>
  /\ similarities = <<>>
  /\ rankedDocs = <<>>
  /\ context = <<>>
  /\ rephrase = "pending"
  /\ synthesis = "idle"
  /\ llmCalls = 1
  /\ question = ""
  /\ embedQueryCalls = 0
  /\ embeddedQuery = ""
  /\ embedDocumentsCalls = 0
  /\ answer = ""
  /\ error = ""
  /\ logged = {}

\* -------------------------------------------------- search(): answer chain

\* Mutant of InvokeAnswerChain: with no document search() returns at once,
\* without calling the language model.
InvokeAnswerChainUnlessEmpty(out) ==
  /\ rankedDocs' = out
  /\ context' = Context(out)
  /\ synthesis' = IF out = <<>> THEN synthesis ELSE "pending"
  /\ llmCalls' = IF out = <<>> THEN llmCalls ELSE llmCalls + 1
  /\ question' = IF out = <<>> THEN question ELSE Query
  /\ pc' = IF out = <<>> THEN "done" ELSE "synth"

\* Mutant of InvokeAnswerChain: the answer prompt is given the rephrased query.
InvokeAnswerChainRephrased(out) ==
  /\ rankedDocs' = out
  /\ context' = Context(out)
  /\ synthesis' = "pending"
  /\ llmCalls' = llmCalls + 1
  /\ question' = searchQuery
  /\ pc' = "synth"

\* answerChain.invoke({ query, docs }): the context is assembled from the
\* documents rerankDocs returned and the language model is called with it.
InvokeAnswerChain(out) ==
  /\ rankedDocs' = out
  /\ context' = Context(out)
  /\ synthesis' = "pending"
  /\ llmCalls' = llmCalls + 1
  /\ question' = Query
  /\ pc' = "synth"

\* ------------------------------------------------------------ rerankDocs

\* Mutant of CallRerankDocs: no early return on an empty list.
CallRerankDocsUnguarded(ds) ==
  /\ embedQ' = "pending"
  /\ embedD' = "pending"
  /\ embedQueryCalls' = embedQueryCalls + 1
  /\ embeddedQuery' = searchQuery
  /\ embedDocumentsCalls' = embedDocumentsCalls + 1
  /\ pc' = "embed"
  /\ UNCHANGED answerVars

\* rerankDocs(searchQuery, ds, embeddings) up to its first await.
CallRerankDocs(ds) ==
  IF Len(ds) = 0
    THEN /\ InvokeAnswerChain(<<>>)
         /\ UNCHANGED embedCallVars
    ELSE /\ embedQ' = "pending"
         /\ embedD' = "pending"
         /\ embedQueryCalls' = embedQueryCalls + 1
         /\ embeddedQuery' = searchQuery
         /\ embedDocumentsCalls' = embedDocumentsCalls + 1
         /\ pc' = "embed"
         /\ UNCHANGED answerVars

\* rerankDocs after Promise.all of the two embedding calls resolved with q and ds:
\* the similarities are computed (computeSimilarity may throw), ranked, and the
\* documents handed to the answer chain.
Score(q, ds) ==
  IF \E i \in 1..Len(ds) : Throws(q, ds[i])
    THEN /\ pc' = "failed"
         /\ error' = "scoring"
         /\ UNCHANGED <<similarities, answerVars>>
    ELSE /\ similarities' = Similarities(q, ds)
         /\ InvokeAnswerChain(Pick(Ranked(similarities'), docs))
         /\ UNCHANGED error

EmbedQueryResolve ==
  /\ pc = "embed"
  /\ embedQ = "pending"
  /\ \E v \in Vectors :
       /\ queryEmbedding' = v
       /\ embedQ' = "ok"
       /\ IF embedD = "ok"
            THEN Score(v, docEmbeddings)
            ELSE UNCHANGED <<pc, error, similarities, answerVars>>
  /\ UNCHANGED <<config, given, web, peer, searchQuery, requestQuery, fetchVars, embedD, docEmbeddings,
                 embedQueryCalls, embeddedQuery, embedDocumentsCalls, rephrase, answer, logged>>

EmbedDocumentsResolve ==
  /\ pc = "embed"
  /\ embedD = "pending"
  /\ \E vs \in [1..Len(docs) -> Vectors] :
       /\ docEmbeddings' = vs
       /\ embedD' = "ok"
       /\ IF embedQ = "ok"
            THEN Score(queryEmbedding, vs)
            ELSE UNCHANGED <<pc, error, similarities, answerVars>>
  /\ UNCHANGED <<config, given, web, peer, searchQuery, requestQuery, fetchVars, embedQ, queryEmbedding,
                 embedQueryCalls, embeddedQuery, embedDocumentsCalls, rephrase, answer, logged>>

\* Promise.all rejects with the first rejection; nothing catches it, so
\* rerankDocs, the lambda, searchChain.invoke and search() reject in turn.
EmbedQueryReject ==
  /\ pc = "embed"
  /\ embedQ = "pending"
  /\ embedQ' = "failed"
  /\ pc' = "failed"
  /\ error' = "embedQuery"
  /\ UNCHANGED <<config, given, web, peer, searchQuery, requestQuery, fetchVars, embedD, embedQueryCalls, embeddedQuery,
                 embedDocumentsCalls, embeddingVars, similarities, answerVars,
                 rephrase, answer, logged>>

\* Mutant of EmbedDocumentsReject: the failure is caught and rerankDocs returns [].
EmbedDocumentsRejectSwallowed ==
  /\ pc = "embed"
  /\ embedD = "pending"
  /\ embedD' = "failed"
  /\ InvokeAnswerChain(<<>>)
  /\ UNCHANGED <<config, given, web, peer, searchQuery, requestQuery, fetchVars, embedQ, embedQueryCalls, embeddedQuery,
                 embedDocumentsCalls, embeddingVars, similarities, rephrase,
                 answer, error, logged>>

EmbedDocumentsReject ==
  /\ pc = "embed"
  /\ embedD = "pending"
  /\ embedD' = "failed"
  /\ pc' = "failed"
  /\ error' = "embedDocuments"
  /\ UNCHANGED <<config, given, web, peer, searchQuery, requestQuery, fetchVars, embedQ, embedQueryCalls, embeddedQuery,
                 embedDocumentsCalls, embeddingVars, similarities, answerVars,
                 rephrase, answer, logged>>

\* -------------------------------------------------- getDocumentsFromUrls

\* Mutant of Finished: the join is a race, over as soon as one task has ended.
FinishedAny(t) == \E j \in DOMAIN t : t[j] \in {"done", "failed"}

\* Promise.all of the tasks resolves when every task has ended (no task rejects).
Finished(t) == \A j \in DOMAIN t : t[j] \in {"done", "failed"}

\* Mutant of CallGetDocumentsFromUrls: the pages are fetched one after the
\* other, so only the first GET is issued before the first await.
CallGetDocumentsFromUrlsSequential(us) ==
  /\ urls' = us
  /\ getCalls' = IF us = <<>> THEN <<>> ELSE <<us[1]>>
  /\ docs' = <<>>
  /\ task' = [i \in 1..Len(us) |-> IF i = 1 THEN "get" ELSE "waiting"]
  /\ chunks' = [i \in 1..Len(us) |-> 0]
  /\ IF Len(us) = 0
       THEN CallRerankDocs(<<>>)
       ELSE /\ pc' = "fetch"
            /\ UNCHANGED <<answerVars, embedCallVars>>

\* getDocumentsFromUrls(us) up to its await: one task per entry, each suspended
\* at its axios.get; with no entry Promise.all resolves at once.
CallGetDocumentsFromUrls(us) ==
  /\ urls' = us
  /\ getCalls' = us
  /\ docs' = <<>>
  /\ task' = [i \in 1..Len(us) |-> "get"]
  /\ chunks' = [i \in 1..Len(us) |-> 0]
  /\ IF Len(us) = 0
       THEN CallRerankDocs(<<>>)
       ELSE /\ pc' = "fetch"
            /\ UNCHANGED <<answerVars, embedCallVars>>

\* Task i ends in state st with the docs array now ds; a failure is logged by
\* the task's own catch. The last task to end resolves Promise.all and the
\* lambda goes on to rerankDocs.
Finish(i, st, ds) ==
  /\ task' = [task EXCEPT ![i] = st]
  /\ docs' = ds
  /\ logged' = IF st = "failed"
                 THEN logged \cup {<<"Error processing", urls[i]>>}
                 ELSE logged
  /\ IF Finished(task')
       THEN CallRerankDocs(ds)
       ELSE UNCHANGED <<pc, answerVars, embedCallVars>>

\* new Document({ pageContent: chunk, metadata: { title, url } }) per chunk
ChunkDocs(url, n) ==
  [j \in 1..n |-> [pageContent |-> Chunk(url, j),
                   metadata |-> [title |-> Title(web[url], url), url |-> url]]]

RECURSIVE SumUpTo(_, _)
SumUpTo(f, n) == IF n = 0 THEN 0 ELSE SumUpTo(f, n - 1) + f[n]

\* axios.get(url) resolves with a text body that htmlToText turns into a text
\* of n chunks; the task is now suspended at splitter.splitText.
GetResolveText(i) ==
  /\ pc = "fetch"
  /\ task[i] = "get"
  /\ \E n \in 0..MaxDocs :
       /\ n = 0 \/ SumUpTo(chunks, Len(chunks)) + n <= MaxDocs
       /\ chunks' = [chunks EXCEPT ![i] = n]
  /\ task' = [task EXCEPT ![i] = "split"]
  /\ UNCHANGED <<config, given, web, peer, pc, searchQuery, requestQuery, urls, getCalls, docs, embedCallVars, embeddingVars,
                 similarities, answerVars, rephrase, answer, error, logged>>

\* Mutant of GetFails: the task has no catch, so Promise.all rejects and with
\* it the whole call.
GetFailsUncaught(i) ==
  /\ pc = "fetch"
  /\ task[i] = "get"
  /\ pc' = "failed"
  /\ error' = "fetch"
  /\ UNCHANGED <<config, given, web, peer, searchQuery, requestQuery, fetchVars, embedCallVars, embeddingVars,
                 similarities, answerVars, rephrase, answer, logged>>

\* axios.get(url) rejects (network error, error status), or resolves with a body
\* htmlToText throws on: the catch logs it and the task ends with nothing pushed.
GetFails(i) ==
  /\ pc = "fetch"
  /\ task[i] = "get"
  /\ Finish(i, "failed", docs)
  /\ UNCHANGED <<config, given, web, peer, searchQuery, requestQuery, urls, getCalls, chunks, embeddingVars, similarities,
                 rephrase, answer, error>>

\* Mutant of SplitResolve: the chunk documents are pushed one by one with the
\* task suspended in between, so that other tasks push among them.
SplitResolveInterleaved(i) ==
  /\ pc = "fetch"
  /\ task[i] = "split"
  /\ Finish(i, "done",
            IF chunks[i] = 0
              THEN docs
              ELSE <<ChunkDocs(urls[i], chunks[i])[1]>> \o docs
                     \o SubSeq(ChunkDocs(urls[i], chunks[i]), 2, chunks[i]))
  /\ UNCHANGED <<config, given, web, peer, searchQuery, requestQuery, urls, getCalls, chunks, embeddingVars, similarities,
                 rephrase, answer, error>>

\* splitText resolved, the title is matched and the chunk documents are pushed.
SplitResolve(i) ==
  /\ pc = "fetch"
  /\ task[i] = "split"
  /\ Finish(i, "done", docs \o ChunkDocs(urls[i], chunks[i]))
  /\ UNCHANGED <<config, given, web, peer, searchQuery, requestQuery, urls, getCalls, chunks, embeddingVars, similarities,
                 rephrase, answer, error>>

\* splitText rejects, or response.data.match throws (a body that is no string):
\* caught like a failed GET, before anything was pushed.
SplitFails(i) ==
  /\ pc = "fetch"
  /\ task[i] = "split"
  /\ Finish(i, "failed", docs)
  /\ UNCHANGED <<config, given, web, peer, searchQuery, requestQuery, urls, getCalls, chunks, embeddingVars, similarities,
                 rephrase, answer, error>>

\* ------------------------------------------------------------- searchWeb

\* What axios.get of the search endpoint resolves with: a body whose results
\* field is a list of results (here their urls), or a body without that field.
Bodies ==
  {[defined |-> FALSE, results |-> <<>>]}
    \cup {[defined |-> TRUE, results |-> [i \in 1..n |-> Url(i)]] : n \in 0..MaxUrls}

\* searchWeb returns response.data.results as it is; the lambda calls
\* results.map on it, which throws a TypeError on undefined.
SearchWebResolve ==
  /\ pc = "searchWeb"
  /\ \E body \in Bodies :
       IF ~body.defined
         THEN /\ pc' = "failed"
              /\ error' = "TypeError"
              /\ UNCHANGED <<fetchVars, embedCallVars, answerVars>>
         ELSE /\ CallGetDocumentsFromUrls(body.results)
              /\ UNCHANGED error
  /\ UNCHANGED <<config, given, web, peer, searchQuery, requestQuery, embeddingVars, similarities, rephrase,
                 answer, logged>>

\* new URL or axios.get throws inside the try: logged, [] returned.
SearchWebReject ==
  /\ pc = "searchWeb"
  /\ logged' = logged \cup {<<"Search error">>}
  /\ CallGetDocumentsFromUrls(<<>>)
  /\ UNCHANGED <<config, given, web, peer, searchQuery, requestQuery, embeddingVars, similarities, rephrase,
                 answer, error>>

\* ------------------------------------------------------------------ search

\* The rephrase call answers; the lambda calls searchWeb with the rephrased query.
RephraseResolve ==
  /\ pc = "rephrase"
  /\ rephrase' = "ok"
  /\ searchQuery' = Rephrased
  /\ requestQuery' = searchQuery'
  /\ pc' = "searchWeb"
  /\ UNCHANGED <<config, given, web, peer, fetchVars, embedCallVars, embeddingVars, similarities,
                 answerVars, answer, error, logged>>

RephraseReject ==
  /\ pc = "rephrase"
  /\ rephrase' = "failed"
  /\ pc' = "failed"
  /\ error' = "rephrase"
  /\ UNCHANGED <<config, given, web, peer, searchQuery, requestQuery, fetchVars, embedCallVars, embeddingVars,
                 similarities, answerVars, answer, logged>>

\* The synthesis call answers and search() returns its text.
SynthResolve ==
  /\ pc = "synth"
  /\ synthesis' = "ok"
  /\ pc' = "done"
  /\ answer' = "answer"
  /\ UNCHANGED <<config, given, web, peer, searchQuery, requestQuery, fetchVars, embedCallVars, embeddingVars,
                 similarities, rankedDocs, context, llmCalls, question, rephrase, error,
                 logged>>

SynthReject ==
  /\ pc = "synth"
  /\ synthesis' = "failed"
  /\ pc' = "failed"
  /\ error' = "synthesis"
  /\ UNCHANGED <<config, given, web, peer, searchQuery, requestQuery, fetchVars, embedCallVars, embeddingVars,
                 similarities, rankedDocs, context, llmCalls, question, rephrase, answer,
                 logged>>

Next ==
  \/ RephraseResolve
  \/ RephraseReject
  \/ SearchWebResolve
  \/ SearchWebReject
  \/ \E i \in 1..MaxUrls : i <= Len(urls) /\ GetResolveText(i)
  \/ \E i \in 1..MaxUrls : i <= Len(urls) /\ GetFails(i)
  \/ \E i \in 1..MaxUrls : i <= Len(urls) /\ SplitResolve(i)
  \/ \E i \in 1..MaxUrls : i <= Len(urls) /\ SplitFails(i)
  \/ EmbedQueryResolve
  \/ EmbedQueryReject
  \/ EmbedDocumentsResolve
  \/ EmbedDocumentsReject
  \/ SynthResolve
  \/ SynthReject

Spec == Init /\ [][Next]_vars

\* --------------------------------------------------- rerankDocs on its own

\* search() at the last step before rerankDocs is called: one page was fetched
\* and its text is being split into n chunks, so that rerankDocs is called with
\* every document list of up to MaxRerankDocs documents.
InitRerank ==
  /\ given \in PartialConfigs
  /\ config = Merge(given)
  /\ web = StaticWeb
  /\ peer = NoPeer
  /\ pc = "fetch"
  /\ searchQuery = Rephrased
  /\ requestQuery = Rephrased
  /\ urls = <<Url(1)>>
  /\ getCalls = <<Url(1)>>
  /\ task = <<"split">>
  /\ chunks \in {<<n>> : n \in 0..MaxRerankDocs}
  /\ docs = <<>>
  /\ embedQ = "idle"
  /\ embedD = "idle"
  /\ queryEmbedding = <<>>
  /\ docEmbeddings = <<>>
  /\ similarities = <<>>
  /\ rankedDocs = <<>>
  /\ context = <<>>
  /\ rephrase = "ok"
  /\ synthesis = "idle"
  /\ llmCalls = 1
  /\ question = ""
  /\ embedQueryCalls = 0
  /\ embeddedQuery = ""
  /\ embedDocumentsCalls = 0
  /\ answer = ""
  /\ error = ""
  /\ logged = {}

NextRerank ==
  \/ SplitResolve(1)
  \/ SplitFails(1)
  \/ EmbedQueryResolve
  \/ EmbedQueryReject
  \/ EmbedDocumentsResolve
  \/ EmbedDocumentsReject
  \/ SynthResolve
  \/ SynthReject

SpecRerank == InitRerank /\ [][NextRerank]_vars

\* ------------------------------------------ getDocumentsFromUrls on its own

\* The urls a result list is made of; a list may name a url more than once.
FetchUrls == {Url(1), Url(2)}

\* search() inside getDocumentsFromUrls, called with a list of up to
\* MaxFetchUrls urls: each task is waiting for its GET, or for splitText to
\* return the up to MaxFetchChunks chunks of its page. The call is either for
\* any list over FetchUrls with the pages of StaticWeb, or for the list of the
\* two urls with any of Pages behind each.
InitFetch ==
  /\ given = [f \in DOMAIN defaultConfig |-> <<>>]
  /\ config = Merge(given)
  /\ peer = NoPeer
  /\ pc = "fetch"
  /\ searchQuery = Rephrased
  /\ requestQuery = Rephrased
  /\ \/ /\ urls \in UNION {[1..n -> FetchUrls] : n \in 1..MaxFetchUrls}
        /\ web = StaticWeb
     \/ /\ urls = <<Url(1), Url(2)>>
        /\ web \in [FetchUrls -> Pages]
  /\ getCalls = urls
  /\ task \in [1..Len(urls) -> {"get", "split"}]
  /\ chunks \in [1..Len(urls) -> 0..MaxFetchChunks]
  /\ \A i \in 1..Len(urls) : task[i] = "get" => chunks[i] = 0
  /\ docs = <<>>
  /\ embedQ = "idle"
  /\ embedD = "idle"
  /\ queryEmbedding = <<>>
  /\ docEmbeddings = <<>>
  /\ similarities = <<>>
  /\ rankedDocs = <<>>
  /\ context = <<>>
  /\ rephrase = "ok"
  /\ synthesis = "idle"
  /\ llmCalls = 1
  /\ question = ""
  /\ embedQueryCalls = 0
  /\ embeddedQuery = ""
  /\ embedDocumentsCalls = 0
  /\ answer = ""
  /\ error = ""
  /\ logged = {}

NextFetch ==
  \/ \E i \in 1..MaxFetchUrls : i <= Len(urls) /\ GetResolveText(i)
  \/ \E i \in 1..MaxFetchUrls : i <= Len(urls) /\ GetFails(i)
  \/ \E i \in 1..MaxFetchUrls : i <= Len(urls) /\ SplitResolve(i)
  \/ \E i \in 1..MaxFetchUrls : i <= Len(urls) /\ SplitFails(i)

SpecFetch == InitFetch /\ [][NextFetch]_vars

\* ------------------------------------------------ two interleaved calls

\* The second call's getDocumentsFromUrls: its task i ends in state st with its
\* own docs array now ds; after the last task the call goes on to rerankDocs,
\* which returns at once on an empty list.
PeerFinish(i, st, ds) ==
  LET t == [peer.task EXCEPT ![i] = st]
  IN peer' = [peer EXCEPT
       !.task = t,
       !.docs = ds,
       !.pc = IF ~ Finished(t) THEN "fetch"
              ELSE IF Len(ds) = 0 THEN "synth" ELSE "embed"]

\* Mutant of PeerSplitResolve: the docs array is a field of the agent, so the
\* second call pushes into the array the first call reads.
PeerSplitResolveShared(i) ==
  /\ peer.pc = "fetch"
  /\ peer.task[i] = "split"
  /\ PeerFinish(i, "done", peer.docs \o ChunkDocs(peer.urls[i], peer.chunks[i]))
  /\ docs' = docs \o ChunkDocs(peer.urls[i], peer.chunks[i])
  /\ UNCHANGED <<config, given, web, pc, searchQuery, requestQuery, urls, getCalls,
                 task, chunks, embedCallVars, embeddingVars, similarities,
                 answerVars, rephrase, answer, error, logged>>

\* The second call's task i pushes the chunk documents of its page.
PeerSplitResolve(i) ==
  /\ peer.pc = "fetch"
  /\ peer.task[i] = "split"
  /\ PeerFinish(i, "done", peer.docs \o ChunkDocs(peer.urls[i], peer.chunks[i]))
  /\ UNCHANGED <<config, given, web, callVars, logged>>

\* The second call's task i fails and logs it.
PeerSplitFails(i) ==
  /\ peer.pc = "fetch"
  /\ peer.task[i] = "split"
  /\ PeerFinish(i, "failed", peer.docs)
  /\ logged' = logged \cup {<<"Error processing", peer.urls[i]>>}
  /\ UNCHANGED <<config, given, web, callVars>>

\* The second call's rerankDocs, from the answers of its two embedding calls
\* to the assembly of its context: scoring throws, or the documents are
\* ranked under this.config and handed to its answer chain.
PeerRerank ==
  /\ peer.pc = "embed"
  /\ \E q \in Vectors, ds \in [1..Len(peer.docs) -> Vectors] :
       IF \E i \in 1..Len(ds) : Throws(q, ds[i])
         THEN peer' = [peer EXCEPT !.pc = "failed"]
         ELSE LET out == Pick(Ranked(Similarities(q, ds)), peer.docs)
              IN peer' = [peer EXCEPT !.pc = "synth", !.rankedDocs = out,
                                      !.context = Context(out)]
  /\ UNCHANGED <<config, given, web, callVars, logged>>

\* One of the second call's embedding calls rejects.
PeerRerankReject ==
  /\ peer.pc = "embed"
  /\ peer' = [peer EXCEPT !.pc = "failed"]
  /\ UNCHANGED <<config, given, web, callVars, logged>>

\* The second call's synthesis call answers, or rejects.
PeerSynthEnds ==
  /\ peer.pc = "synth"
  /\ \E st \in {"done", "failed"} : peer' = [peer EXCEPT !.pc = st]
  /\ UNCHANGED <<config, given, web, callVars, logged>>

\* Two search() calls on one agent with the default configuration, both inside
\* getDocumentsFromUrls: the first fetched the page of Url(1), the second the
\* page of Url(2), and each is splitting its text into up to MaxTwoDocs chunks.
InitTwo ==
  /\ given = [f \in DOMAIN defaultConfig |-> <<>>]
  /\ config = Merge(given)
  /\ web = StaticWeb
  /\ \E n \in 0..MaxTwoDocs :
       peer = [pc |-> "fetch", urls |-> <<Url(2)>>, task |-> <<"split">>,
               chunks |-> <<n>>, docs |-> <<>>, rankedDocs |-> <<>>,
               context |-> <<>>]
  /\ pc = "fetch"
  /\ searchQuery = Rephrased
  /\ requestQuery = Rephrased
  /\ urls = <<Url(1)>>
  /\ getCalls = <<Url(1)>>
  /\ task = <<"split">>
  /\ chunks \in {<<n>> : n \in 0..MaxTwoDocs}
  /\ docs = <<>>
  /\ embedQ = "idle"
  /\ embedD = "idle"
  /\ queryEmbedding = <<>>
  /\ docEmbeddings = <<>>
  /\ similarities = <<>>
  /\ rankedDocs = <<>>
  /\ context = <<>>
  /\ rephrase = "ok"
  /\ synthesis = "idle"
  /\ llmCalls = 1
  /\ question = ""
  /\ embedQueryCalls = 0
  /\ embeddedQuery = ""
  /\ embedDocumentsCalls = 0
  /\ answer = ""
  /\ error = ""
  /\ logged = {}

NextTwo ==
  \/ SplitResolve(1)
  \/ SplitFails(1)
  \/ EmbedQueryResolve
  \/ EmbedQueryReject
  \/ EmbedDocumentsResolve
  \/ EmbedDocumentsReject
  \/ SynthResolve
  \/ SynthReject
  \/ PeerSplitResolve(1)
  \/ PeerSplitFails(1)
  \/ PeerRerank
  \/ PeerRerankReject
  \/ PeerSynthEnds

SpecTwo == InitTwo /\ [][NextTwo]_vars

\* ================================================================ claims

\* getDocumentsFromUrls has returned to the retrieval lambda.
FetchReturned ==
  /\ pc \notin {"rephrase", "searchWeb", "fetch"}
  /\ error \notin {"rephrase", "TypeError"}

\* rerankDocs has scored the documents and returned.
Reranked == embedQ = "ok" /\ embedD = "ok" /\ error # "scoring"

\* The documents of the docs array that carry the url of entry i.
DocsOf(i) == SelectSeq(docs, LAMBDA d : d.metadata.url = urls[i])

\* Documents are told apart by their content, so a returned document has one
\* position in the input list.
IndexOf(d) == CHOOSE i \in 1..Len(docs) : docs[i] = d
ScoreOf(d) == similarities[IndexOf(d)].similarity
Returned == {IndexOf(rankedDocs[k]) : k \in 1..Len(rankedDocs)}

\* The documents whose score strictly exceeds the configured rerankThreshold.
Above ==
  {i \in 1..Len(docs) : Greater(similarities[i].similarity, config.rerankThreshold)}

\* C1. Fault isolation of getDocumentsFromUrls: at every moment the docs array
\* holds, for each URL whose task succeeded, exactly that URL's chunk documents
\* in the chunker's order, and nothing for a URL whose task failed or is still
\* running; the join resolves as soon as every task has ended, whatever failed
\* and in whatever order, and the lambda goes on with those documents.
C1_FaultIsolation ==
  /\ \A i \in DOMAIN urls :
       DocsOf(i) = IF task[i] = "done" THEN ChunkDocs(urls[i], chunks[i]) ELSE <<>>
  /\ Len(docs) = SumUpTo([i \in DOMAIN urls |->
                            IF task[i] = "done" THEN chunks[i] ELSE 0], Len(urls))
  /\ pc = "fetch" => ~Finished(task)
  /\ FetchReturned => Finished(task)

\* One URL succeeded with two chunks, the other failed, and the call returned
\* exactly the two chunks.
C1_Witness ==
  /\ pc = "embed"
  /\ \E i, j \in DOMAIN urls :
       /\ task[i] = "done" /\ chunks[i] = 2
       /\ task[j] = "failed"
  /\ docs = ChunkDocs(urls[CHOOSE i \in DOMAIN urls : task[i] = "done"], 2)

\* C2. searchWeb degrades to empty: no outcome of the search request makes
\* search() fail at the search step, and after a caught search error the
\* pipeline goes on with zero URLs.
C2_SearchDegradesToEmpty ==
  /\ pc = "failed" => error # "TypeError"
  /\ <<"Search error">> \in logged => (urls = <<>> /\ docs = <<>>)

\* C3. The filter is exact for the configured threshold: when at most
\* maxResults documents score strictly above config.rerankThreshold, rerankDocs
\* returns exactly those documents.
C3_FilterExact ==
  (Reranked /\ Cardinality(Above) <= config.maxResults)
    => (Returned = Above /\ Len(rankedDocs) = Cardinality(Above))

\* C4. Every document rerankDocs returns scores strictly above the configured
\* rerankThreshold, and it returns at most maxResults documents.
C4_BoundAndThreshold ==
  Reranked =>
    /\ \A k \in 1..Len(rankedDocs) :
         Greater(ScoreOf(rankedDocs[k]), config.rerankThreshold)
    /\ Len(rankedDocs) <= config.maxResults

\* Three documents went in, two scored above the threshold and one came out.
C4_Witness ==
  /\ Reranked
  /\ Len(docs) = 3
  /\ Cardinality(Above) = 2
  /\ config.maxResults = 1
  /\ Len(rankedDocs) = 1

\* C5. The documents rerankDocs returns are in non-increasing order of score,
\* and two of them with the same score are in their input order.
C5_Ordering ==
  Reranked =>
    \A k, l \in 1..Len(rankedDocs) :
      k < l =>
        /\ ScoreOf(rankedDocs[k]).val >= ScoreOf(rankedDocs[l]).val
        /\ ScoreOf(rankedDocs[k]).val = ScoreOf(rankedDocs[l]).val
             => IndexOf(rankedDocs[k]) < IndexOf(rankedDocs[l])

\* Two documents with the same score came out behind a document that was
\* behind them in the input.
C5_Witness ==
  /\ Reranked
  /\ Len(rankedDocs) = 3
  /\ IndexOf(rankedDocs[1]) = 3
  /\ ScoreOf(rankedDocs[2]).val = ScoreOf(rankedDocs[3]).val
  /\ ScoreOf(rankedDocs[1]).val > ScoreOf(rankedDocs[2]).val

\* C6. Truncation keeps the best: when more than maxResults documents score
\* above the configured threshold, rerankDocs returns maxResults documents and
\* none of the documents above the threshold that it leaves out scores strictly
\* higher than one it returns.
C6_TruncationKeepsBest ==
  (Reranked /\ Cardinality(Above) > config.maxResults) =>
    /\ Len(rankedDocs) = config.maxResults
    /\ \A i \in Above \ Returned : \A k \in 1..Len(rankedDocs) :
         similarities[i].similarity.val <= ScoreOf(rankedDocs[k]).val

\* C7. rerankDocs on an empty document list returns an empty list and calls
\* neither embedQuery nor embedDocuments.
C7_EmptyShortCircuit ==
  (FetchReturned /\ docs = <<>>) =>
    /\ embedQueryCalls = 0
    /\ embedDocumentsCalls = 0
    /\ embedQ = "idle"
    /\ embedD = "idle"
    /\ rankedDocs = <<>>

\* Pages were fetched, none gave a document, and rerankDocs has returned.
C7_Witness ==
  /\ pc = "synth"
  /\ Len(urls) = 2
  /\ docs = <<>>

\* The retrieval stage has ended, and with no document.
RetrievalEmpty ==
  /\ FetchReturned
  /\ docs = <<>> \/ (Reranked /\ Returned = {})

ScoringThrew ==
  /\ embedQ = "ok"
  /\ embedD = "ok"
  /\ \E i \in 1..Len(docEmbeddings) : Throws(queryEmbedding, docEmbeddings[i])

\* C9. A failure of the rephrase call, of embedQuery, of embedDocuments, of the
\* scoring or of the synthesis call makes search() reject: it returns no
\* answer, and a failure in the retrieval stage is not turned into an empty
\* result handed to the synthesis call.
C9_ErrorsPropagate ==
  /\ (rephrase = "failed" \/ embedQ = "failed" \/ embedD = "failed"
        \/ ScoringThrew \/ synthesis = "failed")
       => (pc = "failed" /\ answer = "")
  /\ (rephrase = "failed" \/ embedQ = "failed" \/ embedD = "failed" \/ ScoringThrew)
       => (synthesis = "idle" /\ llmCalls = 1 /\ rankedDocs = <<>>)

\* The two embedding calls answered with vectors of different lengths and
\* search() rejected.
C9_Witness ==
  /\ ScoringThrew
  /\ pc = "failed"
  /\ error = "scoring"

\* C10. Every search() call that has not ended has an external call pending
\* whose response is its next step; it ends with the synthesis answer or with
\* a failure of a language-model call, an embedding call or the scoring, never
\* with a failure of the search request or of a page fetch.
C10_CallerVisibleOutcome ==
  /\ pc \notin {"done", "failed"} => ENABLED Next
  /\ pc = "done" => (synthesis = "ok" /\ answer = "answer")
  /\ pc = "failed" =>
       error \in {"rephrase", "embedQuery", "embedDocuments", "scoring", "synthesis"}

\* -------------------------------------------------------------------- C11

\* The pieces of block i of the context string start after position Base(i).
BlockLen == Len(Block(1, [pageContent |-> "", metadata |-> [title |-> ""]]))
Base(i) == (i - 1) * (BlockLen + 1)

\* C11: once the answer chain has been invoked with the documents d_1..d_n the
\* reranker returned, the context of the synthesis prompt is, for i = 1..n in
\* that order, "[", the number i, "] ", the title of d_i, a newline and the
\* content of d_i, with exactly one blank line between two blocks and nothing
\* else; with n = 0 it is the empty string.
C11_ContextAssembly ==
  synthesis # "idle" =>
    LET n == Len(rankedDocs)
    IN /\ Len(context) = IF n = 0 THEN 0 ELSE n * (BlockLen + 1) - 1
       /\ \A i \in 1..n :
            /\ context[Base(i) + 1] = "["
            /\ context[Base(i) + 2] = ToString(i)
            /\ context[Base(i) + 3] = "] "
            /\ context[Base(i) + 4] = rankedDocs[i].metadata.title
            /\ context[Base(i) + 5] = "\n"
            /\ context[Base(i) + 6] = rankedDocs[i].pageContent
            /\ i < n => context[Base(i) + 7] = "\n\n"

\* Two documents of two pages, one titled and one not, were ranked in the
\* reverse of their fetch order and the synthesis prompt was built from them.
C11_Witness ==
  /\ synthesis = "pending"
  /\ Len(rankedDocs) = 2
  /\ Len(docs) = 2
  /\ rankedDocs[1] = docs[2]
  /\ rankedDocs[1].metadata.title # rankedDocs[2].metadata.title

\* -------------------------------------------------------------------- C13

\* What the constructor was given for field f, or the documented default.
GivenOr(f, default) == IF given[f] = <<>> THEN default ELSE given[f][1]

\* C13: at every point of the agent's life its configuration has exactly the
\* three fields, each with the value the caller supplied to the constructor, or
\* with its default (cosine, 0.3, 15) when the caller supplied none; and no step
\* of searchWeb, getDocumentsFromUrls, rerankDocs or search changes it.
C13_ConfigDefaultsImmutable ==
  /\ [](/\ DOMAIN config = {"similarityMeasure", "rerankThreshold", "maxResults"}
        /\ config.similarityMeasure = GivenOr("similarityMeasure", "cosine")
        /\ config.rerankThreshold = GivenOr("rerankThreshold", 30)
        /\ config.maxResults = GivenOr("maxResults", 15))
  /\ [][config' = config]_vars

\* A whole search() has run on an agent constructed with one field supplied
\* and the other two left to their defaults.
C13_Witness ==
  /\ pc = "done"
  /\ Len(rankedDocs) > 0
  /\ given.maxResults = <<1>>
  /\ given.rerankThreshold = <<>>
  /\ given.similarityMeasure = <<>>
  /\ config = [similarityMeasure |-> "cosine", rerankThreshold |-> 30, maxResults |-> 1]

\* -------------------------------------------------------------------- C14

\* Task i has issued its GET and the response has not come.
Unanswered(i) == i \in DOMAIN task /\ task[i] = "get"

\* C14: for as long as the GET of one of the pages is unanswered, search() is
\* suspended at the join of getDocumentsFromUrls: it has returned no answer and
\* raised no failure, and no later stage (embedding, synthesis) has started,
\* however many of the other tasks have ended. A GET that never answers
\* therefore keeps the call from ever completing.
C14_NoTimeoutOnJoin ==
  (\E i \in 1..MaxUrls : Unanswered(i)) =>
    /\ pc = "fetch"
    /\ answer = ""
    /\ error = ""
    /\ embedQ = "idle"
    /\ embedD = "idle"
    /\ synthesis = "idle"

\* One GET is unanswered while the other task has ended and every earlier
\* external call (rephrase, search) has completed.
C14_Witness ==
  /\ Len(task) = 2
  /\ Unanswered(1)
  /\ task[2] = "done"
  /\ Len(docs) > 0
  /\ rephrase = "ok"

\* -------------------------------------------------------------------- C15

\* The stages of a call that have started, and those that have completed.
SearchStarted == requestQuery # ""
SearchCompleted == pc \notin {"rephrase", "searchWeb"}
FetchStarted == getCalls # <<>>
FetchCompleted == Finished(task)
EmbedStarted == embedQ # "idle" \/ embedD # "idle"
EmbedCompleted == embedQ = "ok" /\ embedD = "ok"
SynthStarted == synthesis # "idle"

\* C15: a stage has started only when every stage before it has completed (the
\* page fetches and the embedding requests being skipped when there is nothing
\* to fetch or to rank): the search request after the rephrase call, the page
\* fetches after the search request, the embedding requests after all page
\* tasks, the synthesis call after the embedding requests. The search request
\* and the embedding of the query carry the rephrased query, the answer prompt
\* the original query, and a call that returned an answer has invoked the
\* language model exactly twice.
C15_StageOrderAndRouting ==
  /\ llmCalls >= 1
  /\ SearchStarted => rephrase = "ok"
  /\ FetchStarted => SearchStarted /\ SearchCompleted
  /\ EmbedStarted => SearchCompleted /\ FetchStarted /\ FetchCompleted
  /\ SynthStarted =>
       /\ SearchCompleted /\ FetchCompleted
       /\ EmbedCompleted \/ (~ EmbedStarted /\ docs = <<>>)
       /\ llmCalls = 2
  /\ ~ SynthStarted => llmCalls = 1
  /\ SearchStarted => requestQuery = searchQuery /\ searchQuery = Rephrased
  /\ EmbedStarted => embeddedQuery = searchQuery
  /\ SynthStarted => question = Query /\ question # searchQuery
  /\ answer # "" => pc = "done" /\ synthesis = "ok" /\ llmCalls = 2

\* A call has gone through all five stages and returned its answer.
C15_Witness ==
  /\ pc = "done"
  /\ answer # ""
  /\ FetchStarted
  /\ EmbedCompleted
  /\ Len(rankedDocs) > 0

\* -------------------------------------------------------------------- C17

\* getDocumentsFromUrls has been called and is suspended at its join.
AtJoin == pc = "fetch"

\* C17: when getDocumentsFromUrls suspends at its join it has issued exactly one
\* GET per entry of the url list, entry by entry, so that all its tasks, as many
\* as the list is long, are in flight at once; no further GET is issued later;
\* and the call has returned (reranking, synthesis or the end of search() was
\* reached) only when every task had ended, by success or by failure.
C17_UncappedFanOut ==
  /\ [](/\ Len(getCalls) = Len(urls)
        /\ \A i \in 1..Len(urls) : getCalls[i] = urls[i]
        /\ Len(task) = Len(urls)
        /\ AtJoin => \A i \in 1..Len(urls) :
                       task[i] \in {"get", "split", "done", "failed"}
        /\ (pc \in {"embed", "synth", "done"} \/ error \in {"scoring", "embedQuery",
              "embedDocuments", "synthesis"}) => Finished(task))
  /\ [][/\ (~ AtJoin /\ AtJoin') =>
              \A i \in 1..Len(urls') : task'[i] = "get"
        /\ AtJoin => getCalls' = getCalls
        /\ (AtJoin /\ ~ AtJoin') => Finished(task')]_vars

\* Every task of a list of MaxUrls urls is waiting for the response to its GET.
C17_Witness ==
  /\ AtJoin
  /\ Len(urls) = MaxUrls
  /\ Len(getCalls) = MaxUrls
  /\ \A i \in 1..MaxUrls : task[i] = "get"

\* -------------------------------------------------------------------- C18

\* The ways of choosing, for each output position, an input position of its
\* own.
Selections ==
  {f \in [1..Len(rankedDocs) -> 1..Len(docs)] :
     \A j, k \in 1..Len(rankedDocs) : j # k => f[j] # f[k]}

\* C18: when rerankDocs has returned, each element of its output is the
\* document of an input position of its own, with the content and the metadata
\* (title, url) that document was created with and with no further field such
\* as a score; and from the call of rerankDocs on, the input list keeps its
\* elements and their order.
C18_RerankSelectsInput ==
  /\ [](Reranked =>
          /\ \E f \in Selections :
               \A k \in 1..Len(rankedDocs) : rankedDocs[k] = docs[f[k]]
          /\ \A k \in 1..Len(rankedDocs) :
               /\ DOMAIN rankedDocs[k] = {"pageContent", "metadata"}
               /\ DOMAIN rankedDocs[k].metadata = {"title", "url"}
          /\ \A i \in 1..Len(docs) :
               docs[i] = ChunkDocs(urls[1], chunks[1])[i])
  /\ [][pc # "fetch" => docs' = docs]_vars

\* Three documents were scored and two of them returned, the later one first.
C18_Witness ==
  /\ Reranked
  /\ Len(docs) = 3
  /\ Len(rankedDocs) = 2
  /\ rankedDocs[1] = docs[3]
  /\ rankedDocs[2] = docs[1]

\* -------------------------------------------------------------------- C16

\* The tasks that pushed their chunks, and the orders they may have done it in.
Pushed == {i \in DOMAIN task : task[i] = "done"}
PushOrders ==
  {o \in [1..Cardinality(Pushed) -> Pushed] :
     \A j, k \in DOMAIN o : j # k => o[j] # o[k]}

\* The number of documents of the first n tasks of the order o.
RECURSIVE PushedBefore(_, _)
PushedBefore(o, n) ==
  IF n = 0 THEN 0 ELSE PushedBefore(o, n - 1) + chunks[o[n]]

\* The statement of C16 as written: the documents of any one url are
\* contiguous in the result.
C16_PerUrlContiguous ==
  \A a, b, c \in 1..Len(docs) :
    (a < b /\ b < c /\ docs[a].metadata.url = docs[c].metadata.url)
      => docs[b].metadata.url = docs[a].metadata.url

\* C16 (amended): at every moment, and so when getDocumentsFromUrls returns,
\* the docs array is, for some order of the tasks that have pushed, the
\* concatenation of one block per such task (one per entry of the url list),
\* each block being the chunks of that entry's page in the order splitText
\* returned them, under that entry's url; tasks that failed contribute nothing.
C16_PerEntryBlocks ==
  \E o \in PushOrders :
    /\ Len(docs) = PushedBefore(o, Len(o))
    /\ \A k \in 1..Len(o) : \A j \in 1..chunks[o[k]] :
         /\ docs[PushedBefore(o, k - 1) + j].metadata.url = urls[o[k]]
         /\ docs[PushedBefore(o, k - 1) + j].pageContent = Chunk(urls[o[k]], j)

\* getDocumentsFromUrls has returned three or more documents of two pages, the
\* page of the second entry first.
C16_Witness ==
  /\ pc # "fetch"
  /\ Len(urls) = 2
  /\ urls[1] # urls[2]
  /\ Pushed = {1, 2}
  /\ Len(docs) >= 3
  /\ docs[1].metadata.url = urls[2]
  /\ docs[Len(docs)].metadata.url = urls[1]

\* -------------------------------------------------------------------- C19

\* The contents of the title elements of a page, in document order.
RECURSIVE TitlesUpTo(_, _)
TitlesUpTo(html, n) ==
  IF n = 0 THEN <<>> ELSE TitlesUpTo(html, n - 1) \o html[n]

\* C19: every chunk-document of a fetched page has the url it was fetched from
\* as metadata url and, as title, the content of the first title element of
\* the page when the page has one and that url when it has none.
C19_TitleIsFirstElement ==
  \A k \in 1..Len(docs) :
    LET url == docs[k].metadata.url
        titles == TitlesUpTo(web[url], Len(web[url]))
    IN /\ \E i \in 1..Len(urls) : urls[i] = url /\ task[i] = "done"
       /\ docs[k].metadata.title = IF titles = <<>> THEN url ELSE titles[1]

\* -------------------------------------------------------------------- C12

\* The urls a sequence of documents comes from, and the urls of a list.
Sources(ds) == {ds[k].metadata.url : k \in 1..Len(ds)}
Listed(us) == {us[i] : i \in 1..Len(us)}

\* The pieces of a context string that are chunks of the page at one of us.
ChunksIn(ctx, us) ==
  {p \in 1..Len(ctx) : \E u \in us, j \in 1..MaxTwoDocs + 1 : ctx[p] = Chunk(u, j)}

\* C12: with two search() calls on one agent interleaved step by step, the
\* documents each call collects, ranks and puts into its synthesis context are
\* documents of the pages of its own url list only, never of the other call's;
\* no step of either call changes the agent's configuration; and a step of
\* one call changes none of the other call's state.
C12_IndependentCalls ==
  /\ [](/\ Sources(docs) \subseteq Listed(urls)
        /\ Sources(rankedDocs) \subseteq Listed(urls)
        /\ ChunksIn(context, Listed(peer.urls)) = {}
        /\ Sources(peer.docs) \subseteq Listed(peer.urls)
        /\ Sources(peer.rankedDocs) \subseteq Listed(peer.urls)
        /\ ChunksIn(peer.context, Listed(urls)) = {}
        /\ Listed(urls) \cap Listed(peer.urls) = {})
  /\ [][/\ config' = config
        /\ peer' # peer => callVars' = callVars
        /\ callVars' # callVars => peer' = peer]_vars

\* Both calls have ranked documents of their own page and built their
\* contexts, the second call having pushed its documents while the first was
\* still inside getDocumentsFromUrls.
C12_Witness ==
  /\ synthesis = "pending"
  /\ peer.pc = "synth"
  /\ Len(rankedDocs) = 2
  /\ Len(peer.rankedDocs) = 2
  /\ ChunksIn(context, Listed(urls)) # {}
  /\ ChunksIn(peer.context, Listed(peer.urls)) # {}

====
